---- MODULE Spec2Model ----
(***************************************************************************)
(* The notebook content/c3/code 2.ipynb run top to bottom: it loads two    *)
(* bundled datasets, fits four scikit-learn estimators and prints two      *)
(* training accuracies and one separability boolean.                       *)
(*                                                                         *)
(* Each statement of a code cell is one action; pc names the statement     *)
(* that runs next.  The estimators are library objects: what fit learns    *)
(* and what predict, predict_proba and score return are results of the     *)
(* library and are drawn from the values of their type.  What the notebook *)
(* computes itself (np.dot of the features with the learned coefficients,  *)
(* boolean-mask indexing, min, max, the comparison and the prints) is      *)
(* computed here as the code computes it.                                  *)
(***************************************************************************)
EXTENDS Integers, Sequences, FiniteSets, TLC

VARIABLES pc, X_cancer, y_cancer, X_wine, y_wine,
          binary_model, multiclass_model, perceptron, lda,
          y_hats, p_hats, f0, f1, stdout, display, calls

vars == <<pc, X_cancer, y_cancer, X_wine, y_wine,
          binary_model, multiclass_model, perceptron, lda,
          y_hats, p_hats, f0, f1, stdout, display, calls>>

data == <<X_cancer, y_cancer, X_wine, y_wine>>
models == <<binary_model, multiclass_model, perceptron, lda>>
outputs == <<y_hats, p_hats, f0, f1, stdout, display>>

----------------------------------------------------------------------------
(* Bounds of the model.  The bundled datasets have 569 and 178 samples.    *)

\* largest number of samples of the breast cancer dataset
MaxSamples == 3
\* largest number of samples of the wine dataset
MaxWine == 2
\* largest size of a common offset added to the projected values
MaxOffset == 2

\* columns of a feature matrix
FeatureIdx == {1, 2}
\* the feature rows the stand-in for the breast cancer dataset draws from
Rows == {<<1, 0>>, <<0, 1>>, <<1, 1>>}
\* the values a learned coefficient takes
Coef == {-1, 1}
\* the class labels of the wine dataset
WineClasses == {0, 1, 2}

\* an opaque floating-point result of the library
Float == "float"
\* a name that is not bound yet
None == <<>>

----------------------------------------------------------------------------
(* Pure helpers: what numpy and the builtins compute.                      *)

\* the dot product of one row x with the vector w, summed over the columns in S
RECURSIVE DotRow(_, _, _)
DotRow(x, w, S) ==
    IF S = {} THEN 0
    ELSE LET j == CHOOSE k \in S : TRUE IN x[j] * w[j] + DotRow(x, w, S \ {j})

\* np.dot(X, w): one value per row of X
NpDot(X, w) == [i \in 1..Len(X) |-> DotRow(X[i], w, DOMAIN w)]

\* a[y == c]: the entries of a at the positions where y equals c, in order
RECURSIVE MaskEq(_, _, _)
MaskEq(a, y, c) ==
    IF a = <<>> THEN <<>>
    ELSE IF Head(y) = c THEN <<Head(a)>> \o MaskEq(Tail(a), Tail(y), c)
         ELSE MaskEq(Tail(a), Tail(y), c)

\* min(s) of a non-empty sequence: keep the first, replace it by a smaller item
RECURSIVE MinFrom(_, _)
MinFrom(m, s) ==
    IF s = <<>> THEN m
    ELSE MinFrom(IF Head(s) < m THEN Head(s) ELSE m, Tail(s))

PyMin(s) == MinFrom(Head(s), Tail(s))

\* max(s) of a non-empty sequence: keep the first, replace it by a larger item
RECURSIVE MaxFrom(_, _)
MaxFrom(m, s) ==
    IF s = <<>> THEN m
    ELSE MaxFrom(IF Head(s) > m THEN Head(s) ELSE m, Tail(s))

PyMax(s) == MaxFrom(Head(s), Tail(s))

\* the expression with min(f1) written where max(f1) belongs
SeparatedExprMinMin(a, b) == (PyMin(a) > PyMin(b)) \/ (PyMax(a) < PyMin(b))

\* the expression with its second alternative left out
SeparatedExprOneSided(a, b) == PyMin(a) > PyMax(b)

\* (min(f0) > max(f1)) | (max(f0) < min(f1))
SeparatedExpr(a, b) == (PyMin(a) > PyMax(b)) \/ (PyMax(a) < PyMin(b))

\* the classes of a label vector (classes_ of a fitted classifier)
Classes(y) == {y[i] : i \in 1..Len(y)}

\* the text a cell has written to standard output so far, then one more line
PrintLine(out, text, value) == Append(out, [text |-> text, value |-> value])

\* one more call in the log of library calls
Call(obj, method) == Append(calls, <<obj, method>>)

----------------------------------------------------------------------------
(* The estimators.                                                         *)

\* a name no estimator is bound to yet
Unbound == [bound |-> FALSE, fitted |-> FALSE]

\* LogisticRegression(C = 10**5, max_iter = 1e5)
NewBinaryModel ==
    [bound |-> TRUE, fitted |-> FALSE, class |-> "LogisticRegression",
     C |-> 100000, max_iter |-> 100000, multi_class |-> "auto"]

\* LogisticRegression(multi_class = 'multinomial', C = 10**5, max_iter = 10**4)
NewMulticlassModel ==
    [bound |-> TRUE, fitted |-> FALSE, class |-> "LogisticRegression",
     C |-> 100000, max_iter |-> 10000, multi_class |-> "multinomial"]

\* Perceptron()
NewPerceptron ==
    [bound |-> TRUE, fitted |-> FALSE, class |-> "Perceptron"]

\* LinearDiscriminantAnalysis(n_components = 1)
NewLda ==
    [bound |-> TRUE, fitted |-> FALSE, class |-> "LinearDiscriminantAnalysis",
     n_components |-> 1]

\* m.fit(X, y) of a classifier: the estimator holds the classes of y afterwards
Fitted(m, y) == [c \in {"classes_"} \cup DOMAIN m |->
                    IF c = "classes_" THEN Classes(y)
                    ELSE IF c = "fitted" THEN TRUE ELSE m[c]]

\* lda.fit(X, y): the fitted estimator also holds coef_, one row of one
\* coefficient per column of X
FittedLda(m, y, w) == [c \in {"coef_"} \cup DOMAIN Fitted(m, y) |->
                          IF c = "coef_" THEN <<w>> ELSE Fitted(m, y)[c]]

\* what m.predict(X) can return: one label per row of X, each a class of m
Predict(m, X) == [1..Len(X) -> m.classes_]

\* what m.predict_proba(X) returns: one row per row of X, one entry per class of m
PredictProba(m, X) == [i \in 1..Len(X) |-> [c \in m.classes_ |-> Float]]

\* what m.score(X, y) returns
Score(m, X, y) == Float

Init ==
    /\ pc = "load_cancer"
    /\ X_cancer = None /\ y_cancer = None
    /\ X_wine = None /\ y_wine = None
    /\ binary_model = Unbound /\ multiclass_model = Unbound
    /\ perceptron = Unbound /\ lda = Unbound
    /\ y_hats = None /\ p_hats = None
    /\ f0 = None /\ f1 = None
    /\ stdout = <<>> /\ display = <<>>
    /\ calls = <<>>

----------------------------------------------------------------------------
(* The data loading cell.                                                  *)

\* cancer = datasets.load_breast_cancer(); X_cancer = cancer['data'];
\* y_cancer = cancer['target']
LoadCancer ==
    /\ pc = "load_cancer"
    /\ \E n \in 1..MaxSamples :
         /\ X_cancer' \in [1..n -> Rows]
         /\ y_cancer' \in [1..n -> {0, 1}]
    /\ calls' = Call("datasets", "load_breast_cancer")
    /\ pc' = "load_wine"
    /\ UNCHANGED <<X_wine, y_wine, models, outputs>>

\* wine = datasets.load_wine(); X_wine = wine['data']; y_wine = wine['target']
LoadWine ==
    /\ pc = "load_wine"
    /\ \E n \in 1..MaxWine :
         /\ X_wine' = [i \in 1..n |-> <<1, 1>>]
         /\ y_wine' = [i \in 1..n |-> (i - 1) % Cardinality(WineClasses)]
    /\ calls' = Call("datasets", "load_wine")
    /\ pc' = "binary_new"
    /\ UNCHANGED <<X_cancer, y_cancer, models, outputs>>

----------------------------------------------------------------------------
(* Binary logistic regression.                                             *)

\* binary_model = LogisticRegression(C = 10**5, max_iter = 1e5)
BinaryNew ==
    /\ pc = "binary_new"
    /\ binary_model' = NewBinaryModel
    /\ calls' = Call("binary_model", "new")
    /\ pc' = "binary_fit"
    /\ UNCHANGED <<data, multiclass_model, perceptron, lda, outputs>>

\* binary_model.fit(X_cancer, y_cancer), the cell's value: its repr is displayed
BinaryFit ==
    /\ pc = "binary_fit"
    /\ binary_model' = Fitted(binary_model, y_cancer)
    /\ display' = Append(display, "LogisticRegression")
    /\ calls' = Call("binary_model", "fit")
    /\ pc' = "binary_predict"
    /\ UNCHANGED <<data, multiclass_model, perceptron, lda,
                   y_hats, p_hats, f0, f1, stdout>>

\* y_hats = binary_model.predict(X_cancer)
BinaryPredict ==
    /\ pc = "binary_predict"
    /\ y_hats' \in Predict(binary_model, X_cancer)
    /\ calls' = Call("binary_model", "predict")
    /\ pc' = "binary_proba"
    /\ UNCHANGED <<data, models, p_hats, f0, f1, stdout, display>>

\* p_hats = binary_model.predict_proba(X_cancer)
BinaryProba ==
    /\ pc = "binary_proba"
    /\ p_hats' = PredictProba(binary_model, X_cancer)
    /\ calls' = Call("binary_model", "predict_proba")
    /\ pc' = "binary_score"
    /\ UNCHANGED <<data, models, y_hats, f0, f1, stdout, display>>

\* print(f'Training accuracy: {binary_model.score(X_cancer, y_cancer)}')
BinaryScore ==
    /\ pc = "binary_score"
    /\ stdout' = PrintLine(stdout, "Training accuracy:",
                           Score(binary_model, X_cancer, y_cancer))
    /\ calls' = Call("binary_model", "score")
    /\ pc' = "multiclass_new"
    /\ UNCHANGED <<data, models, y_hats, p_hats, f0, f1, display>>

----------------------------------------------------------------------------
(* Multiclass logistic regression.                                         *)

\* multiclass_model = LogisticRegression(multi_class = 'multinomial', ...)
MulticlassNew ==
    /\ pc = "multiclass_new"
    /\ multiclass_model' = NewMulticlassModel
    /\ calls' = Call("multiclass_model", "new")
    /\ pc' = "multiclass_fit"
    /\ UNCHANGED <<data, binary_model, perceptron, lda, outputs>>

\* the statement fitting the binary model again: binary_model.fit(X_wine, y_wine)
MulticlassFitWrongModel ==
    /\ pc = "multiclass_fit"
    /\ binary_model' = Fitted(binary_model, y_wine)
    /\ display' = Append(display, "LogisticRegression")
    /\ calls' = Call("binary_model", "fit")
    /\ pc' = "multiclass_predict"
    /\ UNCHANGED <<data, multiclass_model, perceptron, lda,
                   y_hats, p_hats, f0, f1, stdout>>

\* multiclass_model.fit(X_wine, y_wine), the cell's value: its repr is displayed
MulticlassFit ==
    /\ pc = "multiclass_fit"
    /\ multiclass_model' = Fitted(multiclass_model, y_wine)
    /\ display' = Append(display, "LogisticRegression")
    /\ calls' = Call("multiclass_model", "fit")
    /\ pc' = "multiclass_predict"
    /\ UNCHANGED <<data, binary_model, perceptron, lda,
                   y_hats, p_hats, f0, f1, stdout>>

\* y_hats = multiclass_model.predict(X_wine)
MulticlassPredict ==
    /\ pc = "multiclass_predict"
    /\ y_hats' \in Predict(multiclass_model, X_wine)
    /\ calls' = Call("multiclass_model", "predict")
    /\ pc' = "multiclass_proba"
    /\ UNCHANGED <<data, models, p_hats, f0, f1, stdout, display>>

\* p_hats = multiclass_model.predict_proba(X_wine)
MulticlassProba ==
    /\ pc = "multiclass_proba"
    /\ p_hats' = PredictProba(multiclass_model, X_wine)
    /\ calls' = Call("multiclass_model", "predict_proba")
    /\ pc' = "multiclass_score"
    /\ UNCHANGED <<data, models, y_hats, f0, f1, stdout, display>>

\* print(f'Training accuracy: {multiclass_model.score(X_wine, y_wine)}')
MulticlassScore ==
    /\ pc = "multiclass_score"
    /\ stdout' = PrintLine(stdout, "Training accuracy:",
                           Score(multiclass_model, X_wine, y_wine))
    /\ calls' = Call("multiclass_model", "score")
    /\ pc' = "perceptron_new"
    /\ UNCHANGED <<data, models, y_hats, p_hats, f0, f1, display>>

----------------------------------------------------------------------------
(* The perceptron.                                                         *)

\* perceptron = Perceptron()
PerceptronNew ==
    /\ pc = "perceptron_new"
    /\ perceptron' = NewPerceptron
    /\ calls' = Call("perceptron", "new")
    /\ pc' = "perceptron_fit"
    /\ UNCHANGED <<data, binary_model, multiclass_model, lda, outputs>>

\* the fit of a perceptron that reports its epochs on standard output
PerceptronFitVerbose ==
    /\ pc = "perceptron_fit"
    /\ perceptron' = Fitted(perceptron, y_cancer)
    /\ stdout' = PrintLine(stdout, "-- Epoch", Float)
    /\ calls' = Call("perceptron", "fit")
    /\ pc' = "lda_new"
    /\ UNCHANGED <<data, binary_model, multiclass_model, lda,
                   y_hats, p_hats, f0, f1, display>>

\* perceptron.fit(X_cancer, y_cancer);   (the semicolon hides the repr)
PerceptronFit ==
    /\ pc = "perceptron_fit"
    /\ perceptron' = Fitted(perceptron, y_cancer)
    /\ calls' = Call("perceptron", "fit")
    /\ pc' = "lda_new"
    /\ UNCHANGED <<data, binary_model, multiclass_model, lda, outputs>>

----------------------------------------------------------------------------
(* Fisher's linear discriminant.                                           *)

\* lda = LinearDiscriminantAnalysis(n_components = 1)
LdaNew ==
    /\ pc = "lda_new"
    /\ lda' = NewLda
    /\ calls' = Call("lda", "new")
    /\ pc' = "lda_fit"
    /\ UNCHANGED <<data, binary_model, multiclass_model, perceptron, outputs>>

\* a fit that centres the feature matrix it is given in place
LdaFitCentersInPlace ==
    /\ pc = "lda_fit"
    /\ \E w \in [FeatureIdx -> Coef] : lda' = FittedLda(lda, y_cancer, w)
    /\ X_cancer' = [i \in 1..Len(X_cancer) |-> <<0, 0>>]
    /\ calls' = Call("lda", "fit")
    /\ pc' = "f0"
    /\ UNCHANGED <<y_cancer, X_wine, y_wine, binary_model, multiclass_model,
                   perceptron, outputs>>

\* lda.fit(X_cancer, y_cancer);   (the semicolon hides the repr)
LdaFit ==
    /\ pc = "lda_fit"
    /\ \E w \in [FeatureIdx -> Coef] : lda' = FittedLda(lda, y_cancer, w)
    /\ calls' = Call("lda", "fit")
    /\ pc' = "f0"
    /\ UNCHANGED <<data, binary_model, multiclass_model, perceptron, outputs>>

\* f0 = np.dot(X_cancer, lda.coef_[0])[y_cancer == 0]
ProjectF0 ==
    /\ pc = "f0"
    /\ f0' = MaskEq(NpDot(X_cancer, lda.coef_[1]), y_cancer, 0)
    /\ calls' = Call("lda", "coef_")
    /\ pc' = "f1"
    /\ UNCHANGED <<data, models, y_hats, p_hats, f1, stdout, display>>

\* the statement with the mask of f0 copied unchanged: [y_cancer == 0]
ProjectF1SameMask ==
    /\ pc = "f1"
    /\ f1' = MaskEq(NpDot(X_cancer, lda.coef_[1]), y_cancer, 0)
    /\ calls' = Call("lda", "coef_")
    /\ pc' = "separated"
    /\ UNCHANGED <<data, models, y_hats, p_hats, f0, stdout, display>>

\* f1 = np.dot(X_cancer, lda.coef_[0])[y_cancer == 1]
ProjectF1 ==
    /\ pc = "f1"
    /\ f1' = MaskEq(NpDot(X_cancer, lda.coef_[1]), y_cancer, 1)
    /\ calls' = Call("lda", "coef_")
    /\ pc' = "separated"
    /\ UNCHANGED <<data, models, y_hats, p_hats, f0, stdout, display>>

\* print('Separated:', (min(f0) > max(f1)) | (max(f0) < min(f1)))
PrintSeparated ==
    /\ pc = "separated"
    /\ f0 # <<>> /\ f1 # <<>>
    /\ stdout' = PrintLine(stdout, "Separated:", SeparatedExpr(f0, f1))
    /\ pc' = "plot"
    /\ UNCHANGED <<data, models, y_hats, p_hats, f0, f1, display, calls>>

\* the statement with the empty partition handled instead of raised, as by
\* min(f0, default = ...): it prints False and the run goes on
SeparatedHandlesEmpty ==
    /\ pc = "separated"
    /\ f0 = <<>> \/ f1 = <<>>
    /\ stdout' = PrintLine(stdout, "Separated:", FALSE)
    /\ pc' = "plot"
    /\ UNCHANGED <<data, models, y_hats, p_hats, f0, f1, display, calls>>

\* min() or max() of an empty sequence raises ValueError before anything is printed
SeparatedRaises ==
    /\ pc = "separated"
    /\ f0 = <<>> \/ f1 = <<>>
    /\ pc' = "failed"
    /\ UNCHANGED <<data, models, outputs, calls>>

\* the hidden plotting cell: two histograms of f0 and f1 on one figure
Plot ==
    /\ pc = "plot"
    /\ display' = Append(display, "Figure")
    /\ pc' = "done"
    /\ UNCHANGED <<data, models, y_hats, p_hats, f0, f1, stdout, calls>>

\* a library call of the statement at pc raises: nothing catches it, the run ends
Raise ==
    /\ pc \notin {"done", "failed"}
    /\ pc' = "failed"
    /\ UNCHANGED <<data, models, outputs, calls>>

Next ==
    \/ LoadCancer \/ LoadWine
    \/ BinaryNew \/ BinaryFit \/ BinaryPredict \/ BinaryProba \/ BinaryScore
    \/ MulticlassNew \/ MulticlassFit \/ MulticlassPredict \/ MulticlassProba
    \/ MulticlassScore
    \/ PerceptronNew \/ PerceptronFit
    \/ LdaNew \/ LdaFit \/ ProjectF0 \/ ProjectF1
    \/ PrintSeparated \/ SeparatedRaises \/ Plot
    \/ Raise

Spec == Init /\ [][Next]_vars

----------------------------------------------------------------------------
(* Vocabulary of the properties.                                           *)

\* the positions of the log that hold the call obj.method
CallsOf(obj, method) == {i \in 1..Len(calls) : calls[i] = <<obj, method>>}

HasCall(obj, method) == CallsOf(obj, method) # {}

\* the lines of standard output that start with text
LinesOf(text) == {i \in 1..Len(stdout) : stdout[i].text = text}

\* both class partitions have been computed
Projected == Cardinality(CallsOf("lda", "coef_")) = 2

\* every value of a is greater than every value of b, or every value of a is
\* smaller than every value of b, compared pair by pair
AllPairsSeparated(a, b) ==
    \/ \A i \in 1..Len(a) : \A j \in 1..Len(b) : a[i] > b[j]
    \/ \A i \in 1..Len(a) : \A j \in 1..Len(b) : a[i] < b[j]

Estimators == {"binary_model", "multiclass_model", "perceptron", "lda"}
Queries == {"predict", "predict_proba", "score", "coef_"}

\* the statements of the notebook in the order a run executes them
Order == <<"load_cancer", "load_wine",
           "binary_new", "binary_fit", "binary_predict", "binary_proba",
           "binary_score",
           "multiclass_new", "multiclass_fit", "multiclass_predict",
           "multiclass_proba", "multiclass_score",
           "perceptron_new", "perceptron_fit",
           "lda_new", "lda_fit", "f0", "f1", "separated", "plot", "done">>

----------------------------------------------------------------------------
(* C1: whenever a 'Separated:' line has been printed (f0 and f1 are then   *)
(* both non-empty), the boolean it carries is true exactly when every      *)
(* value of f0 is strictly greater than every value of f1 or every value   *)
(* of f0 is strictly less than every value of f1, compared pair by pair.   *)
C1_SeparatedAgrees ==
    \A i \in LinesOf("Separated:") :
        /\ f0 # <<>> /\ f1 # <<>>
        /\ stdout[i].value = AllPairsSeparated(f0, f1)

\* a class of two values lies strictly on one side of the other class
C1_Witness ==
    /\ LinesOf("Separated:") # {}
    /\ Len(f0) + Len(f1) >= 3
    /\ \A i \in LinesOf("Separated:") : stdout[i].value = TRUE

(* C3: the predicted labels have one entry per sample of the dataset they  *)
(* were predicted from (dataset A after the binary predict, dataset B      *)
(* after the multiclass predict), and once f0 and f1 are computed they     *)
(* hold together one projected value per sample of dataset A.              *)
C3_OnePerSample ==
    /\ HasCall("binary_model", "predict") /\ ~HasCall("multiclass_model", "predict")
          => Len(y_hats) = Len(X_cancer)
    /\ HasCall("multiclass_model", "predict") => Len(y_hats) = Len(X_wine)
    /\ Projected => Len(f0) + Len(f1) = Len(X_cancer)
    /\ Projected => Len(NpDot(X_cancer, lda.coef_[1])) = Len(X_cancer)

\* a finished run on datasets of different sizes with both classes present
C3_Witness ==
    /\ pc = "done"
    /\ Len(X_cancer) # Len(X_wine)
    /\ Len(f0) >= 1 /\ Len(f1) >= 2

(* C6: a run that reaches its end has written exactly three lines to      *)
(* standard output, two 'Training accuracy:' lines and then one            *)
(* 'Separated:' line carrying a boolean; the lines are written by the      *)
(* binary score, the multiclass score and the separability statement, in   *)
(* that order, and no other statement (the loading and perceptron          *)
(* statements among them) writes to standard output.                       *)
C6_ThreeLines ==
    /\ [](pc = "done" =>
            /\ Len(stdout) = 3
            /\ stdout[1].text = "Training accuracy:"
            /\ stdout[2].text = "Training accuracy:"
            /\ stdout[3].text = "Separated:"
            /\ stdout[3].value \in BOOLEAN)
    /\ [][/\ stdout' # stdout =>
               /\ pc \in {"binary_score", "multiclass_score", "separated"}
               /\ Len(stdout') = Len(stdout) + 1
               /\ Len(stdout') = CASE pc = "binary_score" -> 1
                                   [] pc = "multiclass_score" -> 2
                                   [] pc = "separated" -> 3
          /\ pc \in {"load_cancer", "load_wine", "perceptron_new", "perceptron_fit"}
               => stdout' = stdout]_vars

\* the end of a run that printed its three lines
C6_Witness ==
    /\ pc = "done"
    /\ Len(stdout) = 3
    /\ HasCall("perceptron", "fit")

(* C8: the iteration cap given to the binary classifier's constructor is   *)
(* 1000, as the text above the cell says.                                  *)
C8_MaxIterIs1000 ==
    binary_model.bound => binary_model.max_iter = 1000

\* the estimator a name of the notebook is bound to
Estimator(m) == CASE m = "binary_model" -> binary_model
                  [] m = "multiclass_model" -> multiclass_model
                  [] m = "perceptron" -> perceptron
                  [] m = "lda" -> lda

\* the call a step has just completed
LastCall == calls'[Len(calls')]

(* C9: every estimator is constructed, then fit once, then queried: a      *)
(* step that completes a library call on an estimator constructs it only   *)
(* while its name is unbound, fits it only when it is constructed and not  *)
(* yet fit, and queries it (predict, predict_proba, score, coef_) only     *)
(* once it is fit; the perceptron is never queried; at the end of a run    *)
(* each estimator has been fit exactly once; and every step finishes one   *)
(* statement and moves to the next one in the order of the notebook, or    *)
(* ends the run with a fault.                                              *)
C9_Lifecycle ==
    /\ [][calls' # calls =>
            /\ calls' = Append(calls, LastCall)
            /\ \A m \in Estimators : LastCall[1] = m =>
                 /\ LastCall[2] \in {"new", "fit"} \cup Queries
                 /\ LastCall[2] = "new" =>
                        ~Estimator(m).bound /\ Estimator(m)'.bound
                 /\ LastCall[2] = "fit" =>
                        /\ Estimator(m).bound /\ ~Estimator(m).fitted
                        /\ Estimator(m)'.fitted
                 /\ LastCall[2] \in Queries =>
                        Estimator(m).fitted /\ m # "perceptron"
                 /\ \A o \in Estimators \ {m} : Estimator(o)' = Estimator(o)]_vars
    /\ [][calls' = calls => UNCHANGED models]_vars
    /\ [](pc = "done" => \A m \in Estimators :
                             /\ Estimator(m).fitted
                             /\ Cardinality(CallsOf(m, "fit")) = 1)
    /\ [][\/ pc' = "failed"
          \/ \E k \in 1..(Len(Order) - 1) : pc = Order[k] /\ pc' = Order[k + 1]]_vars

\* the end of a run in which the classifiers were queried and the perceptron was not
C9_Witness ==
    /\ pc = "done"
    /\ \A m \in Estimators : HasCall(m, "fit")
    /\ HasCall("binary_model", "score") /\ HasCall("multiclass_model", "predict")
    /\ Projected

(* C10: once a dataset is loaded, no step changes its feature matrix or    *)
(* its label vector.                                                       *)
C10_DataUnchanged ==
    [][/\ pc # "load_cancer" => UNCHANGED <<X_cancer, y_cancer>>
       /\ pc \notin {"load_cancer", "load_wine"} => UNCHANGED <<X_wine, y_wine>>]_vars

\* the end of a run that went through every fit, prediction and the projection
C10_Witness ==
    /\ pc = "done"
    /\ Len(X_cancer) >= 2 /\ Len(X_wine) >= 1
    /\ HasCall("lda", "fit") /\ HasCall("multiclass_model", "predict_proba")
    /\ Len(display) = 3

\* what a run has produced so far: completed library calls and output
Progress == Len(calls) + Len(stdout) + Len(display)

(* C11: no fault is caught: once a step has failed no further step runs,   *)
(* so nothing more is fit or printed; a failing step itself binds, fits    *)
(* and prints nothing; a step that does not fail completes its statement;  *)
(* the separability statement fails whenever f0 or f1 is empty; and a run  *)
(* that failed while loading the datasets has constructed no estimator and *)
(* written no output.                                                      *)
C11_FaultsPropagate ==
    /\ [][pc # "failed"]_vars
    /\ [][pc' = "failed" => UNCHANGED <<data, models, outputs, calls>>]_vars
    /\ [][pc' # "failed" => Progress' > Progress]_vars
    /\ [][pc = "separated" /\ (f0 = <<>> \/ f1 = <<>>) =>
             pc' = "failed" /\ stdout' = stdout]_vars
    /\ [](pc = "failed" /\ ~HasCall("datasets", "load_wine") =>
             /\ \A m \in Estimators : ~Estimator(m).bound
             /\ stdout = <<>> /\ display = <<>>
             /\ \A i \in 1..Len(calls) : calls[i][1] = "datasets")

\* a run ended by the min or max of an empty class partition, after the two
\* accuracy lines and before any 'Separated:' line
C11_Witness ==
    /\ pc = "failed"
    /\ Projected
    /\ f0 = <<>> \/ f1 = <<>>
    /\ Len(stdout) = 2

\* the values of s with the constant c added to each, as an intercept would
Shift(s, c) == [i \in 1..Len(s) |-> s[i] + c]

====
